---------------------------- MODULE Spec2Model ----------------------------
(***************************************************************************)
(* Model of src/app.py: the Streamlit dashboard of legislators' social     *)
(* media engagement.  One interaction of the user reruns main() from the   *)
(* top: load_data (memoized by st.cache_data), the sidebar filters, the    *)
(* table and its CSV export, the top-N charts and the posts section.       *)
(*                                                                         *)
(* A DataFrame is a record [columns, rows]: columns is the sequence of     *)
(* column names, rows the sequence of records, each a function from the    *)
(* column names to cells.  A cell is what pandas holds after read_csv:     *)
(* NaN, an integer, a float (kept in halves, v = 3 is 1.5) or a string     *)
(* (a sequence of characters) that is not a number.                        *)
(***************************************************************************)
EXTENDS Integers, Sequences, FiniteSets, TLC

\* Bounds of the model.
MaxRows == 2

Range(s) == {s[i] : i \in 1..Len(s)}

Min(a, b) == IF a <= b THEN a ELSE b

---------------------------------------------------------------------------
\* Cells

NaNCell == [k |-> "nan", v |-> 0, s |-> <<>>]

IntCell(n) == [k |-> "int", v |-> n, s |-> <<>>]

FloatCell(h) == [k |-> "float", v |-> h, s |-> <<>>]

StrCell(t) == [k |-> "str", v |-> 0, s |-> t]

IsNull(c) == c.k = "nan"

\* int(x) of a float: truncation toward zero (the float is v/2).
Trunc(h) == IF h >= 0 THEN h \div 2 ELSE -((-h) \div 2)

---------------------------------------------------------------------------
\* DataFrames

EmptyDataFrame == [columns |-> <<>>, rows |-> <<>>]

\* DataFrame.empty: any axis of length 0.
IsEmpty(d) == Len(d.columns) = 0 \/ Len(d.rows) = 0

HasColumn(d, c) == c \in Range(d.columns)

\* The column c of d as a sequence of cells.
Column(d, c) == [i \in 1..Len(d.rows) |-> d.rows[i][c]]

---------------------------------------------------------------------------
\* The input files the model draws from.

Al == <<"A", "l">>

Bo == <<"B", "o">>

Names == {Al, Bo}

NameCells == {StrCell(n) : n \in Names}

\* What a cell of a followers column can hold: missing, a negative and a
\* positive integer, the float 1.5 and a non-numeric text.
MetricCells ==
    {NaNCell, IntCell(-1), IntCell(2), FloatCell(3), StrCell(<<"x">>)}

\* A row of a file is drawn as its name and its number of followers; the
\* other fields of the row follow from the name.
RowSeeds == [nome : NameCells, m : MetricCells]

UfOf(n) ==
    IF n = StrCell(Al) THEN StrCell(<<"S", "P">>) ELSE StrCell(<<"R", "J">>)

PartidoOf(n) ==
    IF n = StrCell(Al) THEN StrCell(<<"P", "A">>) ELSE StrCell(<<"P", "B">>)

LikesOf(n) == IF n = StrCell(Al) THEN IntCell(7) ELSE NaNCell

FollowerColumns == {"seguidores", "seguidores_x", "seguidores_twitter"}

CellOf(seed, c) ==
    IF c = "nome_deputado" THEN seed.nome
    ELSE IF c = "uf" THEN UfOf(seed.nome)
    ELSE IF c = "partido" THEN PartidoOf(seed.nome)
    ELSE IF c \in FollowerColumns THEN seed.m
    ELSE LikesOf(seed.nome)

Headers ==
    { <<"nome_deputado", "partido", "uf", "seguidores_twitter",
        "curtidas_instagram", "visualizacoes_tiktok">>,
      <<"nome_deputado", "partido", "uf", "seguidores">>,
      <<"nome_deputado", "partido", "uf", "seguidores_x",
        "curtidas_instagram">>,
      <<"nome_deputado", "seguidores", "seguidores_twitter">>,
      <<"nome_deputado">>,
      <<"partido", "uf", "seguidores">> }

SeedSeqs == UNION {[1..n -> RowSeeds] : n \in 0..MaxRows}

\* A file that pd.read_csv cannot read (missing, undecodable, no columns).
Unreadable == [ok |-> FALSE, columns |-> <<>>, rows |-> <<>>]

FileOf(h, ss) ==
    [ok |-> TRUE, columns |-> h,
     rows |-> [i \in 1..Len(ss) |-> [c \in Range(h) |-> CellOf(ss[i], c)]]]

Files == {FileOf(h, ss) : h \in Headers, ss \in SeedSeqs} \cup {Unreadable}

---------------------------------------------------------------------------
\* pandas, as load_data uses it.  A call that can raise returns
\* [exc, df]: exc is "" when the call returned df.

Ok(d) == [exc |-> "", df |-> d]

Raise(e) == [exc |-> e, df |-> EmptyDataFrame]

\* pd.read_csv(uploaded_file) / pd.read_csv('engajamentodeputados.csv')
read_csv(file) ==
    IF file.ok
    THEN Ok([columns |-> file.columns, rows |-> file.rows])
    ELSE Raise("ReadError")

\* The non-key columns the two sides of a merge share: they get the
\* suffixes _x (left) and _y (right).
Overlap(left, right, on) ==
    (Range(left.columns) \cap Range(right.columns)) \ {on}

LeftName(c, ov) == IF c \in ov THEN c \o "_x" ELSE c

RightName(c, ov) == IF c \in ov THEN c \o "_y" ELSE c

MergeColumns(left, right, on) ==
    LET ov == Overlap(left, right, on)
        rc == SelectSeq(right.columns, LAMBDA c : c # on)
    IN [i \in 1..Len(left.columns) |-> LeftName(left.columns[i], ov)]
       \o [i \in 1..Len(rc) |-> RightName(rc[i], ov)]

\* For each left column of the merge, the column of left it comes from.
LeftSource(left, right, on) ==
    LET ov == Overlap(left, right, on)
        lc == Range(left.columns)
    IN [n \in {LeftName(c, ov) : c \in lc} |->
          CHOOSE c \in lc : LeftName(c, ov) = n]

\* For each right column of the merge, the column of right it comes from.
RightSource(left, right, on) ==
    LET ov == Overlap(left, right, on)
        rc == Range(right.columns) \ {on}
    IN [n \in {RightName(c, ov) : c \in rc} |->
          CHOOSE c \in rc : RightName(c, ov) = n]

\* One row of the merge: the left row l beside the right row r.
JoinRow(l, r, ls, rs) ==
    [n \in DOMAIN ls \cup DOMAIN rs |->
       IF n \in DOMAIN ls THEN l[ls[n]] ELSE r[rs[n]]]

\* how='left': the left rows in order, each once per right row with an equal
\* key (NaN keys match each other), in the right rows' order; a left row
\* without a match is kept once with NaN in the right columns.
RECURSIVE MergeRows(_, _, _, _, _)
MergeRows(lrows, right, on, ls, rs) ==
    IF lrows = <<>> THEN <<>>
    ELSE LET l == Head(lrows)
             ms == SelectSeq(right.rows, LAMBDA r : r[on] = l[on])
             nan == [c \in Range(right.columns) |-> NaNCell]
             out == IF Len(ms) = 0
                    THEN <<JoinRow(l, nan, ls, rs)>>
                    ELSE [j \in 1..Len(ms) |-> JoinRow(l, ms[j], ls, rs)]
         IN out \o MergeRows(Tail(lrows), right, on, ls, rs)

\* pd.merge(left, right, on=on, how='left')
merge(left, right, on) ==
    IF ~HasColumn(left, on) \/ ~HasColumn(right, on)
    THEN Raise("KeyError")
    ELSE Ok([columns |-> MergeColumns(left, right, on),
             rows |-> MergeRows(left.rows, right, on,
                                LeftSource(left, right, on),
                                RightSource(left, right, on))])

\* df.rename(columns={old: new}, inplace=True)
rename(d, old, new) ==
    IF ~HasColumn(d, old) THEN d
    ELSE LET cols == [i \in 1..Len(d.columns) |->
                        IF d.columns[i] = old THEN new ELSE d.columns[i]]
         IN [columns |-> cols,
             rows |-> [i \in 1..Len(d.rows) |->
                         [n \in Range(cols) |->
                            d.rows[i][IF n = new THEN old ELSE n]]]]

\* df[c] = cells: replaces the column c, or appends it as the last column.
SetColumn(d, c, cells) ==
    LET cols == IF HasColumn(d, c) THEN d.columns ELSE Append(d.columns, c)
    IN [columns |-> cols,
        rows |-> [i \in 1..Len(d.rows) |->
                    [n \in Range(cols) |->
                       IF n = c THEN cells[i] ELSE d.rows[i][n]]]]

\* Series.fillna(0)
fillna(cells) ==
    [i \in 1..Len(cells) |-> IF IsNull(cells[i]) THEN IntCell(0) ELSE cells[i]]

\* int(x) of one cell of a column without strings.
ToInt(c) == IF c.k = "float" THEN IntCell(Trunc(c.v)) ELSE IntCell(c.v)

\* As astype_int, without the cast: the cells stay what they are.
astype_int_nocast(cells) == [exc |-> "", cells |-> cells]

\* Series.astype(int): a text that is not a number raises ValueError, and
\* so does a NaN that was not filled.
astype_int(cells) ==
    IF \E i \in 1..Len(cells) : cells[i].k \in {"str", "nan"}
    THEN [exc |-> "ValueError", cells |-> <<>>]
    ELSE [exc |-> "", cells |-> [i \in 1..Len(cells) |-> ToInt(cells[i])]]

EngagementColumns ==
    <<"seguidores_twitter", "curtidas_instagram", "visualizacoes_tiktok">>

\* The body of the loop of load_data for one column.
CoerceColumn(d, col) ==
    LET d1 == IF ~HasColumn(d, col)
              THEN SetColumn(d, col, [i \in 1..Len(d.rows) |-> IntCell(0)])
              ELSE d
        r == astype_int(fillna(Column(d1, col)))
    IN IF r.exc # "" THEN Raise(r.exc) ELSE Ok(SetColumn(d1, col, r.cells))

RECURSIVE CoerceColumns(_, _)
CoerceColumns(d, cols) ==
    IF cols = <<>> THEN Ok(d)
    ELSE LET r == CoerceColumn(d, Head(cols))
         IN IF r.exc # "" THEN r ELSE CoerceColumns(r.df, Tail(cols))

\* The try block of load_data, from the file it reads.
LoadDataBody(file) ==
    LET r1 == read_csv(file)
    IN IF r1.exc # "" THEN r1
       ELSE LET df_deputados == r1.df
                df_engajamento == df_deputados
                r2 == merge(df_deputados, df_engajamento, "nome_deputado")
            IN IF r2.exc # "" THEN r2
               ELSE CoerceColumns(
                      rename(r2.df, "seguidores_x", "seguidores_twitter"),
                      EngagementColumns)

\* load_data without its cache: the table it returns and the message it
\* hands to st.error ("" when it reports none).  The file is the upload, or
\* the file on disk when there is no upload.
load_data_body(uploaded_file, disk) ==
    LET r == LoadDataBody(IF uploaded_file.present
                          THEN uploaded_file.file ELSE disk)
    IN IF r.exc # ""
       THEN [df |-> EmptyDataFrame, error |-> r.exc]
       ELSE [df |-> r.df, error |-> ""]

NoUpload == [present |-> FALSE, file |-> Unreadable]

Upload(f) == [present |-> TRUE, file |-> f]

---------------------------------------------------------------------------
\* load_posts

\* pd.read_csv('engajamentodeputados.csv', delimiter=';') of a file whose
\* fields are separated by commas: one column, named by the whole header
\* line, holding each whole line as a text.
RECURSIVE JoinNames(_)
JoinNames(cols) ==
    IF Len(cols) = 0 THEN ""
    ELSE IF Len(cols) = 1 THEN cols[1]
    ELSE cols[1] \o "," \o JoinNames(Tail(cols))

read_csv_semicolon(file) ==
    IF ~file.ok \/ Len(file.columns) = 0 THEN Raise("ReadError")
    ELSE LET col == JoinNames(file.columns)
         IN Ok([columns |-> <<col>>,
                rows |-> [i \in 1..Len(file.rows) |->
                            [c \in {col} |->
                               IF Len(file.columns) = 1
                               THEN file.rows[i][file.columns[1]]
                               ELSE StrCell(<<",">>)]]])

\* pd.to_datetime(errors='coerce'): a text that is no date becomes NaT.
to_datetime(cells) ==
    [i \in 1..Len(cells) |->
       IF cells[i].k = "str" THEN NaNCell ELSE cells[i]]

\* pd.to_numeric(errors='coerce'): a text that is no number becomes NaN.
to_numeric(cells) ==
    [i \in 1..Len(cells) |->
       IF cells[i].k = "str" THEN NaNCell ELSE cells[i]]

NetworkColumn == "Top 5 values of Network.keyword"

\* load_posts without its cache.
load_posts_body(disk) ==
    LET r == read_csv_semicolon(disk)
    IN IF r.exc # "" THEN [df |-> EmptyDataFrame, error |-> r.exc]
       ELSE IF ~HasColumn(r.df, "Date") \/ ~HasColumn(r.df, "Engajamento total")
       THEN [df |-> EmptyDataFrame, error |-> "KeyError"]
       ELSE LET d1 == SetColumn(r.df, "Date",
                                to_datetime(Column(r.df, "Date")))
                e == astype_int(fillna(to_numeric(
                                  Column(d1, "Engajamento total"))))
            IN IF e.exc # "" THEN [df |-> EmptyDataFrame, error |-> e.exc]
               ELSE [df |-> SetColumn(d1, "Engajamento total", e.cells),
                     error |-> ""]

---------------------------------------------------------------------------
\* As cache_data_call, looking no key up: any entry answers any call.
cache_data_call_any_key(cache, key, computed) ==
    IF DOMAIN cache # {}
    THEN [hit |-> TRUE, value |-> cache[CHOOSE k \in DOMAIN cache : TRUE],
          cache |-> cache]
    ELSE [hit |-> FALSE, value |-> computed,
          cache |-> [k \in {key} |-> computed]]

\* st.cache_data: the decorated function's results are kept by the hash of
\* its arguments; a call whose arguments have an entry returns the entry
\* (and shows again what the function showed), any other call runs the
\* function and stores what it returned.  Entries are never dropped.
cache_data_call(cache, key, computed) ==
    IF key \in DOMAIN cache
    THEN [hit |-> TRUE, value |-> cache[key], cache |-> cache]
    ELSE [hit |-> FALSE, value |-> computed,
          cache |-> [k \in DOMAIN cache \cup {key} |->
                       IF k = key THEN computed ELSE cache[k]]]

EmptyCache == [k \in {} |-> 0]

---------------------------------------------------------------------------
\* What main does with the table.

Todas == StrCell(<<"T", "o", "d", "a", "s">>)

Todos == StrCell(<<"T", "o", "d", "o", "s">>)

\* ["Todas"] + sorted(df[c].dropna().unique().tolist()), as the set of the
\* choices the selectbox offers.
Options(d, c, any) ==
    {any} \cup {d.rows[i][c] : i \in {j \in 1..Len(d.rows) : ~IsNull(d.rows[j][c])}}

\* df[mask]: the rows of d whose entry of the boolean series mask is true,
\* in their order.
Where(d, mask) ==
    LET idx == SelectSeq([i \in 1..Len(d.rows) |-> i], LAMBDA i : mask[i])
    IN [columns |-> d.columns,
        rows |-> [k \in 1..Len(idx) |-> d.rows[idx[k]]]]

\* df[c] == value, as a boolean series.
EqualsMask(d, c, value) == [i \in 1..Len(d.rows) |-> d.rows[i][c] = value]

Lower(ch) ==
    IF ch = "A" THEN "a" ELSE IF ch = "B" THEN "b"
    ELSE IF ch = "L" THEN "l" ELSE IF ch = "O" THEN "o" ELSE ch

\* Whether pat occurs in text, letters compared without case.
Contains(text, pat) ==
    \E i \in 0..(Len(text) - Len(pat)) :
        \A j \in 1..Len(pat) : Lower(text[i + j]) = Lower(pat[j])

\* Series.str.contains(pat, case=False, na=False) of one cell.
str_contains(cell, pat) == cell.k = "str" /\ Contains(cell.s, pat)

\* The texts the model types into the search box; "(" is no regular
\* expression, and str.contains compiles the text as one.
SearchTexts == {<<>>, <<"a">>, <<"L">>, <<"b", "O">>, <<"(">>}

IsRegex(pat) == "(" \notin Range(pat)

\* The values of d in column col, largest first, at most n of them; equal
\* values in the order of d (keep='first').
RECURSIVE nlargest_rows(_, _, _)
nlargest_rows(rows, n, col) ==
    IF n <= 0 \/ Len(rows) = 0 THEN <<>>
    ELSE LET best == CHOOSE i \in 1..Len(rows) :
                       /\ \A j \in 1..Len(rows) : rows[j][col].v <= rows[i][col].v
                       /\ \A j \in 1..(i - 1) : rows[j][col].v < rows[i][col].v
             rest == [j \in 1..(Len(rows) - 1) |->
                        IF j < best THEN rows[j] ELSE rows[j + 1]]
         IN <<rows[best]>> \o nlargest_rows(rest, n - 1, col)

nlargest(d, n, col) ==
    [columns |-> d.columns, rows |-> nlargest_rows(d.rows, n, col)]

\* DataFrame.to_csv(index=False).encode('utf-8'): a header line with every
\* column of the frame, then one line per row; NaN is written as the empty
\* field.
to_csv(d) ==
    [header |-> d.columns,
     lines |-> [i \in 1..Len(d.rows) |->
                  [j \in 1..Len(d.columns) |->
                     IF IsNull(d.rows[i][d.columns[j]])
                     THEN StrCell(<<>>) ELSE d.rows[i][d.columns[j]]]]]

cols_to_display ==
    <<"nome_deputado", "partido", "uf", "seguidores_twitter",
      "curtidas_instagram", "visualizacoes_tiktok">>

NoCsv == [header |-> <<>>, lines |-> <<>>]

\* The sliders: st.slider(label, min, max, default).
SliderMin == 5

SliderMax == 20

PostsSliderMax == 30

SliderDefault == 10

---------------------------------------------------------------------------
\* main

\* What the user chooses in the widgets of one run.
DefaultInputs ==
    [selected_uf |-> Todas, selected_partido |-> Todos, search_name |-> <<>>,
     num_top_deputies |-> SliderDefault, selected_rede |-> Todas,
     top_n |-> SliderDefault]

\* The choices the widgets of main offer for the table d and the posts pd.
\* A selectbox that main never builds (main returned or raised before it)
\* stays at its default.
InputsFor(d, pd) ==
    IF IsEmpty(d) \/ ~HasColumn(d, "uf") \/ ~HasColumn(d, "partido")
    THEN {DefaultInputs}
    ELSE [selected_uf : Options(d, "uf", Todas),
          selected_partido : Options(d, "partido", Todos),
          search_name : SearchTexts,
          num_top_deputies : SliderMin..SliderMax,
          selected_rede : IF IsEmpty(pd) \/ ~HasColumn(pd, NetworkColumn)
                          THEN {Todas}
                          ELSE Options(pd, NetworkColumn, Todas),
          top_n : SliderMin..PostsSliderMax]

\* The page before main has shown anything of the table.
BlankPage(res) ==
    [df |-> res.df, st_error |-> res.error,
     rendered |-> {"file_uploader"}, raised |-> "",
     filtered_df |-> EmptyDataFrame, csv |-> NoCsv,
     top_x |-> EmptyDataFrame, top_instagram |-> EmptyDataFrame,
     top_tiktok |-> EmptyDataFrame,
     filtered_posts |-> EmptyDataFrame, top_posts |-> EmptyDataFrame,
     posts_called |-> FALSE]

\* The three filters of main, in the order main applies them.
ApplyFilters(d, inp) ==
    LET f1 == IF inp.selected_uf # Todas
              THEN Where(d, EqualsMask(d, "uf", inp.selected_uf)) ELSE d
        f2 == IF inp.selected_partido # Todos
              THEN Where(f1, EqualsMask(f1, "partido", inp.selected_partido))
              ELSE f1
    IN IF inp.search_name # <<>>
       THEN Where(f2, [i \in 1..Len(f2.rows) |->
                         str_contains(f2.rows[i]["nome_deputado"],
                                      inp.search_name)])
       ELSE f2

\* The posts section of main, on the page p.
PostsSection(p, posts, inp) ==
    LET df_posts == posts.df
        q == [p EXCEPT !.posts_called = TRUE,
                       !.rendered = @ \cup {"posts_header"}]
    IN IF IsEmpty(df_posts)
       THEN [q EXCEPT !.rendered = @ \cup {"posts_warning"}]
       ELSE IF ~HasColumn(df_posts, NetworkColumn)
       THEN [q EXCEPT !.raised = "KeyError"]
       ELSE LET filtered_posts ==
                    IF inp.selected_rede # Todas
                    THEN Where(df_posts, EqualsMask(df_posts, NetworkColumn,
                                                    inp.selected_rede))
                    ELSE df_posts
                top == nlargest(filtered_posts, inp.top_n, "Engajamento total")
            IN [q EXCEPT !.filtered_posts = filtered_posts,
                         !.top_posts = top,
                         !.rendered = @ \cup (IF IsEmpty(top)
                                              THEN {"posts_info"}
                                              ELSE {"posts_chart", "posts_table"})]

\* main from its line 74 on: the filters, the table and its download, the
\* charts and the posts section, for the table of res, the choices inp of
\* the user and the result posts of load_posts (read only when main reaches
\* the posts section).  raised names the exception that ends the run, if any:
\* df['uf'] and df['partido'] raise KeyError on a table without the column.
MainAfterLoad(res, inp, posts) ==
    LET p0 == BlankPage(res)
        d == res.df
    IN IF ~HasColumn(d, "uf") \/ ~HasColumn(d, "partido")
       THEN [p0 EXCEPT !.raised = "KeyError"]
       ELSE LET p1 == [p0 EXCEPT !.rendered = @ \cup {"filters"}]
            IN IF inp.search_name # <<>>
                  /\ \A i \in 1..Len(d.rows) : IsNull(d.rows[i]["nome_deputado"])
               THEN [p1 EXCEPT !.raised = "AttributeError"]
               ELSE IF inp.search_name # <<>> /\ ~IsRegex(inp.search_name)
               THEN [p1 EXCEPT !.raised = "re.error"]
               ELSE LET f == ApplyFilters(d, inp)
                        n == inp.num_top_deputies
                        p2 == [p1 EXCEPT
                                 !.filtered_df = f,
                                 !.csv = IF IsEmpty(f) THEN NoCsv ELSE to_csv(f),
                                 !.rendered = @ \cup (IF IsEmpty(f)
                                                      THEN {"info"}
                                                      ELSE {"table", "download"})]
                        p3 == [p2 EXCEPT
                                 !.top_x = nlargest(f, n, "seguidores_twitter"),
                                 !.top_instagram =
                                     nlargest(f, n, "curtidas_instagram"),
                                 !.top_tiktok =
                                     nlargest(f, n, "visualizacoes_tiktok"),
                                 !.rendered = @ \cup (IF IsEmpty(f) THEN {}
                                                      ELSE {"charts"})]
                    IN PostsSection(p3, posts, inp)

\* As main, without the check of df.empty that ends the run with a warning.
main_without_empty_check(res, inp, posts) == MainAfterLoad(res, inp, posts)

\* One run of main from the result res of load_data.
main(res, inp, posts) ==
    IF IsEmpty(res.df)
    THEN [BlankPage(res) EXCEPT !.rendered = @ \cup {"warning"}]
    ELSE MainAfterLoad(res, inp, posts)

---------------------------------------------------------------------------
\* The state machine: one session of the app.

VARIABLES
    disk,           \* the file engajamentodeputados.csv on disk
    userFile,       \* the CSV file the user has at hand to upload
    uploaded_file,  \* what st.sidebar.file_uploader returns
    cache_data,     \* the entries st.cache_data keeps for load_data
    cache_posts,    \* the entries st.cache_data keeps for load_posts
    ran_body,       \* whether the last call of load_data ran its body
    last_inputs,    \* the choices of the user in the last run
    df,             \* the table main got from load_data
    st_error,       \* the message shown by st.error in load_data ("": none)
    rendered,       \* what the last run put on the page
    raised,         \* the exception that ended the last run ("": none)
    filtered_df, csv, top_x, top_instagram, top_tiktok,
    filtered_posts, top_posts

vars ==
    <<disk, userFile, uploaded_file, cache_data, cache_posts, ran_body,
      last_inputs, df, st_error, rendered, raised, filtered_df, csv, top_x,
      top_instagram, top_tiktok, filtered_posts, top_posts>>

\* The files on disk the model starts from.
DiskFiles ==
    {Unreadable,
     FileOf(<<"nome_deputado", "partido", "uf", "seguidores">>,
            <<[nome |-> StrCell(Al), m |-> IntCell(2)],
              [nome |-> StrCell(Bo), m |-> NaNCell]>>)}

Init ==
    /\ disk \in DiskFiles
    /\ userFile \in Files
    /\ uploaded_file = NoUpload
    /\ cache_data = EmptyCache
    /\ cache_posts = EmptyCache
    /\ ran_body = FALSE
    /\ last_inputs = DefaultInputs
    /\ df = EmptyDataFrame
    /\ st_error = ""
    /\ rendered = {}
    /\ raised = ""
    /\ filtered_df = EmptyDataFrame
    /\ csv = NoCsv
    /\ top_x = EmptyDataFrame
    /\ top_instagram = EmptyDataFrame
    /\ top_tiktok = EmptyDataFrame
    /\ filtered_posts = EmptyDataFrame
    /\ top_posts = EmptyDataFrame

\* One run of the script with the upload widget holding up: load_data
\* through its cache, then the rest of main, load_posts through its cache
\* when main reaches it.
Interaction(up) ==
    \E c \in {cache_data_call(cache_data, up, load_data_body(up, disk))} :
    \E pc \in {cache_data_call(cache_posts, "load_posts",
                               load_posts_body(disk))} :
    \E inp \in InputsFor(c.value.df, pc.value.df) :
    \E p \in {main(c.value, inp, pc.value)} :
       /\ uploaded_file' = up
       /\ cache_data' = c.cache
       /\ ran_body' = ~c.hit
       /\ last_inputs' = inp
       /\ cache_posts' = IF p.posts_called THEN pc.cache ELSE cache_posts
       /\ df' = p.df
       /\ st_error' = p.st_error
       /\ rendered' = p.rendered
       /\ raised' = p.raised
       /\ filtered_df' = p.filtered_df
       /\ csv' = p.csv
       /\ top_x' = p.top_x
       /\ top_instagram' = p.top_instagram
       /\ top_tiktok' = p.top_tiktok
       /\ filtered_posts' = p.filtered_posts
       /\ top_posts' = p.top_posts
       /\ UNCHANGED <<disk, userFile>>

\* The user opens the page or changes a widget other than the uploader.
Rerun == Interaction(uploaded_file)

\* The user uploads the file.
UploadFile ==
    /\ "file_uploader" \in rendered
    /\ ~uploaded_file.present
    /\ Interaction(Upload(userFile))

\* The user removes the uploaded file.
RemoveFile ==
    /\ uploaded_file.present
    /\ Interaction(NoUpload)

\* The file on disk is replaced between two runs.
DiskChange ==
    /\ disk' \in DiskFiles \ {disk}
    /\ UNCHANGED <<userFile, uploaded_file, cache_data, cache_posts, ran_body,
                   last_inputs, df, st_error, rendered, raised, filtered_df,
                   csv, top_x, top_instagram, top_tiktok, filtered_posts,
                   top_posts>>

Next == Rerun \/ UploadFile \/ RemoveFile

Spec == Init /\ [][Next]_vars

\* The same session with the file on disk changing under it, from the files
\* of one row.
CacheFiles ==
    {FileOf(h, ss) : h \in Headers, ss \in [1..1 -> RowSeeds]} \cup {Unreadable}

InitCache == Init /\ userFile \in CacheFiles

NextCache == Next \/ DiskChange

SpecCache == InitCache /\ [][NextCache]_vars

---------------------------------------------------------------------------
\* The claims.

\* main has run at least once.
Ran == "file_uploader" \in rendered

\* The file the last run of load_data was asked to read.
SourceFile == IF uploaded_file.present THEN uploaded_file.file ELSE disk

\* The last run got a non-empty table from load_data.
Loaded == Ran /\ ~IsEmpty(df)

\* The integer a numeric cell stands for; 0 for a missing or non-numeric one.
Coerce(cell) ==
    IF cell.k = "int" THEN cell.v
    ELSE IF cell.k = "float" THEN Trunc(cell.v)
    ELSE 0

EngagementSet == Range(EngagementColumns)

\* C1, as stated: whenever load_data returns a non-empty table, the three
\* engagement columns exist on every record and each value is a non-negative
\* integer.
C1_NonNegativeIntegers ==
    Loaded =>
      \A c \in EngagementSet :
        /\ HasColumn(df, c)
        /\ \A i \in 1..Len(df.rows) :
             df.rows[i][c].k = "int" /\ df.rows[i][c].v >= 0

\* C1, amended: whenever load_data returns a non-empty table, the three
\* engagement columns exist on every record and each value is an integer,
\* never null and never a text; a value is negative only where the file holds
\* a negative number of followers, which load_data keeps as it is.
C1_IntegerColumns ==
    Loaded =>
      \A c \in EngagementSet :
        /\ HasColumn(df, c)
        /\ \A i \in 1..Len(df.rows) :
             /\ df.rows[i][c].k = "int"
             /\ df.rows[i][c].v < 0 =>
                  /\ c = "seguidores_twitter"
                  /\ HasColumn(SourceFile, "seguidores")
                  /\ \E j \in 1..Len(SourceFile.rows) :
                       /\ SourceFile.rows[j]["seguidores"].k \in {"int", "float"}
                       /\ Coerce(SourceFile.rows[j]["seguidores"]) = df.rows[i][c].v

\* A table loaded from a file whose followers column holds a missing value
\* and a number that is no integer or is negative.
C1_Witness ==
    /\ Loaded
    /\ HasColumn(SourceFile, "seguidores")
    /\ \E j \in 1..Len(SourceFile.rows) : IsNull(SourceFile.rows[j]["seguidores"])
    /\ \E j \in 1..Len(SourceFile.rows) :
         SourceFile.rows[j]["seguidores"] \in {FloatCell(3), IntCell(-1)}

\* The names under which C2 accepts an engagement column in the file.
AcceptedNames(c) ==
    IF c = "seguidores_twitter" THEN {"seguidores_x", "seguidores_twitter"}
    ELSE {c}

\* C2: for each engagement column, every record of the loaded table holds 0
\* when the file lacks the column and its own value of the file, coerced to
\* an integer, when the file has it (stated for the files without the
\* column seguidores, which C2 does not name).
C2_OwnValueOrZero ==
    (Loaded /\ ~HasColumn(SourceFile, "seguidores")) =>
      \A c \in EngagementSet :
        LET present == {n \in AcceptedNames(c) : HasColumn(SourceFile, n)}
        IN IF present = {}
           THEN \A i \in 1..Len(df.rows) : df.rows[i][c] = IntCell(0)
           ELSE \A i \in 1..Len(df.rows) :
                  \E j \in 1..Len(SourceFile.rows) : \E n \in present :
                    /\ SourceFile.rows[j]["nome_deputado"]
                         = df.rows[i]["nome_deputado"]
                    /\ df.rows[i][c] = IntCell(Coerce(SourceFile.rows[j][n]))

\* C3: a readable file with the key column and at least one row is loaded
\* whatever its followers column holds, and each missing or non-numeric
\* value of that column is 0 in the loaded table.
C3_NonNumericBecomesZero ==
    (/\ Ran
     /\ SourceFile.ok
     /\ HasColumn(SourceFile, "nome_deputado")
     /\ HasColumn(SourceFile, "seguidores")
     /\ Len(SourceFile.rows) > 0) =>
      /\ ~IsEmpty(df)
      /\ \A j \in 1..Len(SourceFile.rows) :
           SourceFile.rows[j]["seguidores"].k \in {"str", "nan"} =>
             \E i \in 1..Len(df.rows) :
               /\ df.rows[i]["nome_deputado"]
                    = SourceFile.rows[j]["nome_deputado"]
               /\ df.rows[i]["seguidores_twitter"] = IntCell(0)

\* Whether the record r satisfies every active constraint of inp.
Matches(r, inp) ==
    /\ inp.selected_uf = Todas \/ r["uf"] = inp.selected_uf
    /\ inp.selected_partido = Todos \/ r["partido"] = inp.selected_partido
    /\ inp.search_name = <<>>
         \/ (r["nome_deputado"].k = "str"
             /\ Contains(r["nome_deputado"].s, inp.search_name))

\* C4: for every loaded table and every choice of the three filters, main
\* computes the filtered table, and it is the records of the loaded table
\* that satisfy all active constraints, in their order.
C4_FilterIsConjunction ==
    Loaded =>
      /\ raised = ""
      /\ filtered_df =
           [columns |-> df.columns,
            rows |-> SelectSeq(df.rows, LAMBDA r : Matches(r, last_inputs))]

\* C5: for every non-empty table returned by load_data, building the filter
\* options and applying the filters completes without raising an error.
C5_FilteringIsTotal == Loaded => raised = ""

\* What C6 says of the top-N selection top of the table d by column c.
TopNOk(top, d, n, c) ==
    /\ Len(top.rows) <= Min(n, Len(d.rows))
    /\ \E pick \in [1..Len(top.rows) -> 1..Len(d.rows)] :
         /\ \A a, b \in 1..Len(top.rows) : a # b => pick[a] # pick[b]
         /\ \A a \in 1..Len(top.rows) : top.rows[a] = d.rows[pick[a]]
         /\ \A a, b \in 1..Len(top.rows) :
              a < b => \/ d.rows[pick[a]][c].v > d.rows[pick[b]][c].v
                       \/ /\ d.rows[pick[a]][c].v = d.rows[pick[b]][c].v
                          /\ pick[a] < pick[b]
         /\ \A a \in 1..Len(top.rows) :
              \A k \in 1..Len(d.rows) :
                (\A b \in 1..Len(top.rows) : pick[b] # k) =>
                  d.rows[pick[a]][c].v >= d.rows[k][c].v

\* C6: for every filtered table and every slider value, main selects the
\* top N by each ranking column: at most min(n, records) records, largest
\* first, none smaller than a record left out, equal values in their order.
C6_TopNSelection ==
    Loaded =>
      /\ raised = ""
      /\ TopNOk(top_x, filtered_df, last_inputs.num_top_deputies,
                "seguidores_twitter")
      /\ TopNOk(top_instagram, filtered_df, last_inputs.num_top_deputies,
                "curtidas_instagram")
      /\ TopNOk(top_tiktok, filtered_df, last_inputs.num_top_deputies,
                "visualizacoes_tiktok")
      /\ "posts_warning" \in rendered
           \/ TopNOk(top_posts, filtered_posts, last_inputs.top_n,
                     "Engajamento total")

\* C9: whenever the filtered table is non-empty (with no filter chosen it is
\* the loaded table), the download button offers a CSV whose header is the
\* displayed columns and whose lines are the filtered records.
C9_CsvMirrorsDisplay ==
    (Loaded /\ last_inputs = DefaultInputs) =>
      /\ "download" \in rendered
      /\ csv.header = cols_to_display
      /\ Len(csv.lines) = Len(df.rows)

\* C10: the loaded table has exactly one record for each row of the file,
\* in the order of the file.
C10_OneRecordPerRow ==
    Loaded =>
      /\ Len(df.rows) = Len(SourceFile.rows)
      /\ \A i \in 1..Len(df.rows) :
           df.rows[i]["nome_deputado"] = SourceFile.rows[i]["nome_deputado"]

\* C7: when reading or normalizing the file fails, load_data returns the
\* empty table and reports an error, no exception leaves main, and main
\* shows the warning and nothing of the filters, the table, the download
\* button, the charts or the posts section.
C7_LoadFailureHalts ==
    (Ran /\ LoadDataBody(SourceFile).exc # "") =>
      /\ df = EmptyDataFrame
      /\ st_error # ""
      /\ raised = ""
      /\ rendered = {"file_uploader", "warning"}
      /\ filtered_df = EmptyDataFrame /\ csv = NoCsv
      /\ top_x = EmptyDataFrame /\ top_posts = EmptyDataFrame

\* A run on a file whose followers column holds a text: astype(int) raised.
C7_Witness ==
    /\ Ran
    /\ SourceFile.ok
    /\ HasColumn(SourceFile, "nome_deputado")
    /\ HasColumn(SourceFile, "seguidores")
    /\ \E j \in 1..Len(SourceFile.rows) :
         SourceFile.rows[j]["seguidores"].k = "str"
    /\ "warning" \in rendered

===========================================================================
